---- MODULE Spec2Model ----
(***************************************************************************)
(* Connection-lifecycle state machines of the libfabric transport:         *)
(*   blibfabric  - the listener endpoint  (blibfabric.c)                   *)
(*   clibfabric  - the connector endpoint (clibfabric.c)                   *)
(*                                                                         *)
(* One behaviour follows one endpoint object from the end of its create    *)
(* function to its destruction.  vfptr tells which of the two kinds was    *)
(* created.  The endpoint's collaborators (usock, backoff, dns, alibfabric *)
(* and slibfabric sub-machines, the fsm runtime) are not part of the two   *)
(* source files; they are modelled at their interface: every collaborator  *)
(* is idle, active or stopping, a stop request is acknowledged later by a  *)
(* STOPPED event, and every event is handed to the endpoint's handler (or, *)
(* once stop was requested, to its shutdown function) in the step in which *)
(* it is raised.                                                           *)
(***************************************************************************)
EXTENDS Integers, Sequences, FiniteSets, TLC

\* Number of alibfabric objects one listener allocates in a behaviour.
MaxAlibfabrics == 4

\* Largest value a statistics counter of the connector takes in a behaviour.
MaxStat == 2

\* Number of countdowns the backoff timer of one endpoint completes in a
\* behaviour.
MaxBackoffs == 3

VARIABLES vfptr, blibfabric, clibfabric

vars == <<vfptr, blibfabric, clibfabric>>

\* Pointers: NULL, the alibfabric objects 1..MaxAlibfabrics, and the
\* endpoint's own members, which are never equal to an alibfabric pointer.
NULL == 0
UsockPtr == -1
RetryPtr == -2
AlibfabricIds == 1 .. MaxAlibfabrics

(***************************************************************************)
(* Collaborators, at their interface.                                      *)
(***************************************************************************)

\* Stopping a state machine that is idle or already stopping does nothing.
nn_fsm_stop(st) == IF st \in {"idle", "stopping"} THEN st ELSE "stopping"

nn_usock_stop(u) == nn_fsm_stop(u)
nn_usock_isidle(u) == u = "idle"

nn_backoff_start(t) == "active"
nn_backoff_stop(t) == nn_fsm_stop(t)
nn_backoff_isidle(t) == t = "idle"

nn_alibfabric_stop(st) == nn_fsm_stop(st)
nn_alibfabric_isidle(st) == st = "idle"

\* The values of the options NN_RECONNECT_IVL and NN_RECONNECT_IVL_MAX the
\* create functions read.
ReconnectIvls == {1, 2}
ReconnectIvlMaxes == {0, 1, 3, 5}

Min(a, b) == IF a < b THEN a ELSE b

\* The interval state of the backoff timer: the interval of the next
\* countdown starts at the base interval, every completed countdown doubles
\* it up to the maximum, and no countdown is longer than the maximum.
\* n counts the completed countdowns, timeout is the interval of the last
\* countdown started.
nn_backoff_init(minivl, maxivl) ==
    [minivl |-> minivl, maxivl |-> maxivl, n |-> 0, ivl |-> minivl,
     timeout |-> 0]

\* The interval with which nn_backoff_start starts the countdown.
nn_backoff_timeout(b) == [b EXCEPT !.timeout = Min(b.ivl, b.maxivl)]

\* The countdown has completed.
nn_backoff_elapsed(b) ==
    [b EXCEPT !.n = @ + 1, !.ivl = Min(2 * b.ivl, b.maxivl)]

\* Mutant: a maximum interval of zero is passed on as it is.
ReconnectIvlMax_NoDefault(reconnect_ivl, reconnect_ivl_max) ==
    reconnect_ivl_max

\* The maximum interval the create functions pass to nn_backoff_init.
ReconnectIvlMax(reconnect_ivl, reconnect_ivl_max) ==
    IF reconnect_ivl_max = 0 THEN reconnect_ivl ELSE reconnect_ivl_max

\* A failed assertion or nn_fsm_bad_action/bad_source/bad_state: the process
\* aborts.
nn_fsm_bad(self) == [self EXCEPT !.aborted = TRUE]

\* nn_alloc: the next object that was never allocated.
nn_alloc(objs) == CHOOSE a \in AlibfabricIds :
                     /\ objs[a].state = "none"
                     /\ \A b \in AlibfabricIds : objs[b].state = "none" => a <= b

InList(list, item) == \E i \in 1 .. Len(list) : list[i] = item

nn_list_erase(list, item) == SelectSeq(list, LAMBDA x : x # item)

(***************************************************************************)
(* The listener: struct nn_blibfabric.                                     *)
(***************************************************************************)

\* The results of the three socket calls of nn_blibfabric_start_listening.
ListenResults == {"start_failed", "bind_failed", "listen_failed", "ok"}

BlibfabricInit ==
    [ fsm         |-> "idle",
      state       |-> "IDLE",
      usock       |-> "idle",
      alibfabric  |-> NULL,
      alibfabrics |-> << >>,
      retry       |-> "idle",
      objs        |-> [a \in AlibfabricIds |->
                          [state |-> "none", accepted |-> FALSE]],
      stopped     |-> 0,
      destroyed   |-> FALSE,
      aborted     |-> FALSE ]

\* nn_blibfabric_create: the options are read and the timer is initialised.
nn_blibfabric_create(reconnect_ivl, reconnect_ivl_max) ==
    BlibfabricInit @@
    [ options |-> [NN_RECONNECT_IVL     |-> reconnect_ivl,
                   NN_RECONNECT_IVL_MAX |-> reconnect_ivl_max],
      backoff |-> nn_backoff_init(reconnect_ivl,
                      ReconnectIvlMax(reconnect_ivl, reconnect_ivl_max)) ]

nn_blibfabric_start_accepting(self) ==
    IF self.alibfabric # NULL
    THEN nn_fsm_bad(self)
    ELSE LET a == nn_alloc(self.objs) IN
         [self EXCEPT !.alibfabric = a,
                      !.objs[a] = [state |-> "accepting", accepted |-> FALSE]]

\* Mutant: a bind or listen failure starts the backoff timer at once and
\* leaves the socket started.
nn_blibfabric_start_listening_NoStop(self, rc) ==
    IF ~nn_usock_isidle(self.usock)
    THEN nn_fsm_bad(self)
    ELSE CASE rc = "start_failed" ->
                [self EXCEPT !.retry = nn_backoff_start(@),
                             !.backoff = nn_backoff_timeout(@),
                             !.state = "WAITING"]
           [] rc \in {"bind_failed", "listen_failed"} ->
                [self EXCEPT !.usock = "active",
                             !.retry = nn_backoff_start(@),
                             !.backoff = nn_backoff_timeout(@),
                             !.state = "WAITING"]
           [] OTHER ->
                [nn_blibfabric_start_accepting([self EXCEPT !.usock = "active"])
                    EXCEPT !.state = "ACTIVE"]

nn_blibfabric_start_listening(self, rc) ==
    IF ~nn_usock_isidle(self.usock)
    THEN nn_fsm_bad(self)
    ELSE CASE rc = "start_failed" ->
                [self EXCEPT !.retry = nn_backoff_start(@),
                             !.backoff = nn_backoff_timeout(@),
                             !.state = "WAITING"]
           [] rc \in {"bind_failed", "listen_failed"} ->
                [self EXCEPT !.usock = nn_usock_stop("active"),
                             !.state = "CLOSING"]
           [] OTHER ->
                [nn_blibfabric_start_accepting([self EXCEPT !.usock = "active"])
                    EXCEPT !.state = "ACTIVE"]

\* Mutant: the loop stops after the first accepted connection.
StopAll_FirstOnly(objs, list) ==
    [a \in AlibfabricIds |->
        IF list # << >> /\ Head(list) = a
        THEN [objs[a] EXCEPT !.state = nn_alibfabric_stop(@)]
        ELSE objs[a]]

\* The stop requests of the loop over the list of accepted connections.
StopAll(objs, list) ==
    [a \in AlibfabricIds |->
        IF InList(list, a)
        THEN [objs[a] EXCEPT !.state = nn_alibfabric_stop(@)]
        ELSE objs[a]]

\* Mutant: the connection is freed and left in the list.
EraseAndFree_NoErase(self, a) ==
    IF \/ a \notin AlibfabricIds
       \/ ~InList(self.alibfabrics, a)
       \/ ~nn_alibfabric_isidle(self.objs[a].state)
    THEN nn_fsm_bad(self)
    ELSE [self EXCEPT !.objs[a].state = "freed"]

\* nn_list_erase, nn_alibfabric_term and nn_free of an accepted connection.
EraseAndFree(self, a) ==
    IF \/ a \notin AlibfabricIds
       \/ ~InList(self.alibfabrics, a)
       \/ ~nn_alibfabric_isidle(self.objs[a].state)
    THEN nn_fsm_bad(self)
    ELSE [self EXCEPT !.alibfabrics = nn_list_erase(@, a),
                      !.objs[a].state = "freed"]

\* The label alibfabrics_stopping of nn_blibfabric_shutdown.
alibfabrics_stopping(self) ==
    IF self.aborted
    THEN self
    ELSE IF self.alibfabrics = << >>
         THEN [self EXCEPT !.state = "IDLE",
                           !.fsm = "idle",
                           !.stopped = @ + 1]
         ELSE self

\* Mutant: the stop request stops the listening socket together with the
\* pending acceptor.
ShutdownStop_StopsUsock(self) ==
    LET t == [self EXCEPT !.retry = nn_backoff_stop(@)] IN
    IF t.alibfabric # NULL
    THEN [t EXCEPT !.objs[t.alibfabric].state = nn_alibfabric_stop(@),
                   !.usock = nn_usock_stop(@),
                   !.state = "STOPPING_ALIBFABRIC"]
    ELSE [t EXCEPT !.state = "STOPPING_USOCK"]

\* The first block of nn_blibfabric_shutdown: the stop request itself.
ShutdownStop(self) ==
    LET t == [self EXCEPT !.retry = nn_backoff_stop(@)] IN
    IF t.alibfabric # NULL
    THEN [t EXCEPT !.objs[t.alibfabric].state = nn_alibfabric_stop(@),
                   !.state = "STOPPING_ALIBFABRIC"]
    ELSE [t EXCEPT !.state = "STOPPING_USOCK"]

\* The block of state STOPPING_ALIBFABRIC once the pending acceptor is idle.
ShutdownAlibfabricIdle(self) ==
    [self EXCEPT !.objs[self.alibfabric].state = "freed",
                 !.alibfabric = NULL,
                 !.usock = nn_usock_stop(@),
                 !.state = "STOPPING_USOCK"]

\* The block of state STOPPING_USOCK once the listening socket is idle.
ShutdownUsockIdle(self) ==
    alibfabrics_stopping(
        [self EXCEPT !.objs = StopAll(@, self.alibfabrics),
                     !.state = "STOPPING_ALIBFABRICS"])

nn_blibfabric_shutdown(self, src, type, srcptr) ==
    LET s1 == IF src = "NN_FSM_ACTION" /\ type = "NN_FSM_STOP"
              THEN ShutdownStop(self)
              ELSE self
    IN
    IF /\ s1.state = "STOPPING_ALIBFABRIC"
       /\ ~nn_alibfabric_isidle(s1.objs[s1.alibfabric].state)
    THEN s1
    ELSE LET s2 == IF s1.state = "STOPPING_ALIBFABRIC"
                   THEN ShutdownAlibfabricIdle(s1)
                   ELSE s1
         IN
         CASE s2.state = "STOPPING_USOCK" ->
                IF ~nn_usock_isidle(s2.usock)
                THEN s2
                ELSE ShutdownUsockIdle(s2)
           [] s2.state = "STOPPING_ALIBFABRICS" ->
                IF ~(src = "NN_BLIBFABRIC_SRC_ALIBFABRIC"
                     /\ type = "NN_ALIBFABRIC_STOPPED")
                THEN nn_fsm_bad(s2)
                ELSE alibfabrics_stopping(EraseAndFree(s2, srcptr))
           [] OTHER -> nn_fsm_bad(s2)

\* Mutant: the accepted connection is moved to the list and no new acceptor
\* is started.
HandleAccepted_NoRestart(self) ==
    [self EXCEPT !.alibfabrics = Append(@, self.alibfabric),
                 !.alibfabric = NULL]

\* The ACCEPTED branch of state ACTIVE.
HandleAccepted(self) ==
    nn_blibfabric_start_accepting(
        [self EXCEPT !.alibfabrics = Append(@, self.alibfabric),
                     !.alibfabric = NULL])

\* Mutant: an error of one accepted connection stops every accepted
\* connection.
HandleAlibfabricError_StopsAll(self, a) ==
    [self EXCEPT !.objs = [b \in AlibfabricIds |->
                              IF b = a \/ InList(self.alibfabrics, b)
                              THEN [self.objs[b] EXCEPT
                                       !.state = nn_alibfabric_stop(@)]
                              ELSE self.objs[b]]]

\* Mutant: an error of an accepted connection removes and frees it at once.
HandleAlibfabricError_FreesAtOnce(self, a) ==
    [self EXCEPT !.alibfabrics = nn_list_erase(@, a),
                 !.objs[a].state = "freed"]

\* Mutant: an error of an accepted connection is treated like a failure of
\* the listening socket, which is closed for a retry.
HandleAlibfabricError_ClosesListener(self, a) ==
    [self EXCEPT !.objs[a].state = nn_alibfabric_stop(@),
                 !.usock = nn_usock_stop(@),
                 !.state = "CLOSING"]

\* The ERROR branch of state ACTIVE, for an accepted connection.
HandleAlibfabricError(self, a) ==
    [self EXCEPT !.objs[a].state = nn_alibfabric_stop(@)]

nn_blibfabric_handler(self, src, type, srcptr) ==
    CASE self.state = "IDLE" ->
           IF src = "NN_FSM_ACTION" /\ type = "NN_FSM_START"
           THEN {nn_blibfabric_start_listening(self, rc) : rc \in ListenResults}
           ELSE {nn_fsm_bad(self)}
      [] self.state = "ACTIVE" ->
           IF srcptr = self.alibfabric
           THEN IF type = "NN_ALIBFABRIC_ACCEPTED"
                THEN {HandleAccepted(self)}
                ELSE {nn_fsm_bad(self)}
           ELSE IF src # "NN_BLIBFABRIC_SRC_ALIBFABRIC"
                THEN {nn_fsm_bad(self)}
                ELSE CASE type = "NN_ALIBFABRIC_ERROR" ->
                            {HandleAlibfabricError(self, srcptr)}
                       [] type = "NN_ALIBFABRIC_STOPPED" ->
                            {EraseAndFree(self, srcptr)}
                       [] OTHER -> {nn_fsm_bad(self)}
      [] self.state = "CLOSING" ->
           IF src # "NN_BLIBFABRIC_SRC_USOCK"
           THEN {nn_fsm_bad(self)}
           ELSE CASE type = "NN_USOCK_SHUTDOWN" -> {self}
                  [] type = "NN_USOCK_STOPPED" ->
                       {[self EXCEPT !.retry = nn_backoff_start(@),
                                     !.backoff = nn_backoff_timeout(@),
                                     !.state = "WAITING"]}
                  [] OTHER -> {nn_fsm_bad(self)}
      [] self.state = "WAITING" ->
           IF src = "NN_BLIBFABRIC_SRC_RECONNECT_TIMER"
              /\ type = "NN_BACKOFF_TIMEOUT"
           THEN {[self EXCEPT !.retry = nn_backoff_stop(@),
                              !.state = "STOPPING_BACKOFF"]}
           ELSE {nn_fsm_bad(self)}
      [] self.state = "STOPPING_BACKOFF" ->
           IF src = "NN_BLIBFABRIC_SRC_RECONNECT_TIMER"
              /\ type = "NN_BACKOFF_STOPPED"
           THEN {nn_blibfabric_start_listening(self, rc) : rc \in ListenResults}
           ELSE {nn_fsm_bad(self)}
      [] OTHER -> {nn_fsm_bad(self)}

\* nn_fsm_feed: events go to the shutdown function once stop was requested.
BFeed(self, src, type, srcptr) ==
    IF self.fsm = "stopping"
    THEN {nn_blibfabric_shutdown(self, src, type, srcptr)}
    ELSE nn_blibfabric_handler(self, src, type, srcptr)

nn_blibfabric_destroy(self) ==
    IF \/ self.state # "IDLE"
       \/ self.alibfabrics # << >>
       \/ self.alibfabric # NULL
       \/ ~nn_usock_isidle(self.usock)
       \/ ~nn_backoff_isidle(self.retry)
    THEN nn_fsm_bad(self)
    ELSE [self EXCEPT !.destroyed = TRUE]

BLive == /\ vfptr = "nn_blibfabric_epbase_vfptr"
         /\ ~blibfabric.aborted
         /\ ~blibfabric.destroyed

\* nn_fsm_start at the end of nn_blibfabric_create.
B_Start ==
    /\ BLive
    /\ blibfabric.fsm = "idle" /\ blibfabric.stopped = 0
    /\ blibfabric' \in BFeed([blibfabric EXCEPT !.fsm = "active"],
                             "NN_FSM_ACTION", "NN_FSM_START", NULL)
    /\ UNCHANGED <<vfptr, clibfabric>>

\* nn_blibfabric_stop: the owner asks the endpoint to stop.
B_Stop ==
    /\ BLive
    /\ blibfabric.fsm = "active"
    /\ blibfabric' \in BFeed([blibfabric EXCEPT !.fsm = "stopping"],
                             "NN_FSM_ACTION", "NN_FSM_STOP", NULL)
    /\ UNCHANGED <<vfptr, clibfabric>>

B_Destroy ==
    /\ BLive
    /\ blibfabric.stopped > 0
    /\ blibfabric' = nn_blibfabric_destroy(blibfabric)
    /\ UNCHANGED <<vfptr, clibfabric>>

B_UsockShutdown ==
    /\ BLive
    /\ blibfabric.usock = "stopping"
    /\ blibfabric' \in BFeed(blibfabric, "NN_BLIBFABRIC_SRC_USOCK",
                             "NN_USOCK_SHUTDOWN", UsockPtr)
    /\ UNCHANGED <<vfptr, clibfabric>>

B_UsockStopped ==
    /\ BLive
    /\ blibfabric.usock = "stopping"
    /\ blibfabric' \in BFeed([blibfabric EXCEPT !.usock = "idle"],
                             "NN_BLIBFABRIC_SRC_USOCK",
                             "NN_USOCK_STOPPED", UsockPtr)
    /\ UNCHANGED <<vfptr, clibfabric>>

B_BackoffTimeout ==
    /\ BLive
    /\ blibfabric.retry = "active"
    /\ blibfabric.backoff.n < MaxBackoffs
    /\ blibfabric' \in
          BFeed([blibfabric EXCEPT !.backoff = nn_backoff_elapsed(@)],
                "NN_BLIBFABRIC_SRC_RECONNECT_TIMER",
                "NN_BACKOFF_TIMEOUT", RetryPtr)
    /\ UNCHANGED <<vfptr, clibfabric>>

B_BackoffStopped ==
    /\ BLive
    /\ blibfabric.retry = "stopping"
    /\ blibfabric' \in BFeed([blibfabric EXCEPT !.retry = "idle"],
                             "NN_BLIBFABRIC_SRC_RECONNECT_TIMER",
                             "NN_BACKOFF_STOPPED", RetryPtr)
    /\ UNCHANGED <<vfptr, clibfabric>>

\* The pending acceptor has accepted a connection.
B_AlibfabricAccepted ==
    /\ BLive
    /\ \E a \in AlibfabricIds :
         /\ blibfabric.objs[a].state = "accepting"
         /\ \E b \in AlibfabricIds : blibfabric.objs[b].state = "none"
         /\ blibfabric' \in
              BFeed([blibfabric EXCEPT
                        !.objs[a] = [state |-> "active", accepted |-> TRUE]],
                    "NN_BLIBFABRIC_SRC_ALIBFABRIC", "NN_ALIBFABRIC_ACCEPTED", a)
    /\ UNCHANGED <<vfptr, clibfabric>>

\* An accepted connection has failed.
B_AlibfabricError ==
    /\ BLive
    /\ \E a \in AlibfabricIds :
         /\ blibfabric.objs[a].state = "active"
         /\ blibfabric' \in
              BFeed([blibfabric EXCEPT !.objs[a].state = "error"],
                    "NN_BLIBFABRIC_SRC_ALIBFABRIC", "NN_ALIBFABRIC_ERROR", a)
    /\ UNCHANGED <<vfptr, clibfabric>>

\* An alibfabric that was asked to stop has stopped.
B_AlibfabricStopped ==
    /\ BLive
    /\ \E a \in AlibfabricIds :
         /\ blibfabric.objs[a].state = "stopping"
         /\ blibfabric' \in
              BFeed([blibfabric EXCEPT !.objs[a].state = "idle"],
                    "NN_BLIBFABRIC_SRC_ALIBFABRIC", "NN_ALIBFABRIC_STOPPED", a)
    /\ UNCHANGED <<vfptr, clibfabric>>

NextB ==
    \/ B_Start
    \/ B_Stop
    \/ B_Destroy
    \/ B_UsockShutdown
    \/ B_UsockStopped
    \/ B_BackoffTimeout
    \/ B_BackoffStopped
    \/ B_AlibfabricAccepted
    \/ B_AlibfabricError
    \/ B_AlibfabricStopped

(***************************************************************************)
(* The connector: struct nn_clibfabric.                                    *)
(***************************************************************************)

nn_slibfabric_start(st) == "active"
nn_slibfabric_stop(st) == nn_fsm_stop(st)
nn_slibfabric_isidle(st) == st = "idle"

nn_dns_start(d) == "active"
nn_dns_stop(d) == nn_fsm_stop(d)
nn_dns_isidle(d) == d = "idle"

\* nn_epbase_stat_increment.
nn_epbase_stat_increment(self, name, increment) ==
    [self EXCEPT !.stat[name] = @ + increment]

\* The results of the calls of nn_clibfabric_start_connecting that can fail.
ConnectResults == {"iface_failed", "start_failed", "bind_failed", "ok"}

\* The error member of the result a resolution delivers.
DnsErrors == {0, 1}

ClibfabricInit ==
    [ fsm        |-> "idle",
      state      |-> "IDLE",
      usock      |-> "idle",
      retry      |-> "idle",
      slibfabric |-> "idle",
      dns        |-> "idle",
      dns_result |-> [error |-> 0],
      stat       |-> [ NN_STAT_INPROGRESS_CONNECTIONS  |-> 0,
                       NN_STAT_ESTABLISHED_CONNECTIONS |-> 0,
                       NN_STAT_BROKEN_CONNECTIONS      |-> 0,
                       NN_STAT_DROPPED_CONNECTIONS     |-> 0,
                       NN_STAT_CONNECT_ERRORS          |-> 0 ],
      error      |-> 0,
      stopped    |-> 0,
      destroyed  |-> FALSE,
      aborted    |-> FALSE ]

\* nn_clibfabric_create: the options are read and the timer is initialised.
nn_clibfabric_create(reconnect_ivl, reconnect_ivl_max) ==
    ClibfabricInit @@
    [ options |-> [NN_RECONNECT_IVL     |-> reconnect_ivl,
                   NN_RECONNECT_IVL_MAX |-> reconnect_ivl_max],
      backoff |-> nn_backoff_init(reconnect_ivl,
                      ReconnectIvlMax(reconnect_ivl, reconnect_ivl_max)) ]

nn_clibfabric_start_resolving(self) ==
    IF ~nn_dns_isidle(self.dns)
    THEN nn_fsm_bad(self)
    ELSE [self EXCEPT !.dns = nn_dns_start(@), !.state = "RESOLVING"]

\* Mutant: WAITING is entered and the backoff timer is not started.
StartBackoff_NoTimer(self) ==
    [self EXCEPT !.state = "WAITING"]

\* The failure exit shared by the sub-steps of nn_clibfabric_start_connecting.
StartBackoff(self) ==
    [self EXCEPT !.retry = nn_backoff_start(@),
                 !.backoff = nn_backoff_timeout(@),
                 !.state = "WAITING"]

nn_clibfabric_start_connecting(self, rc) ==
    CASE rc = "iface_failed" -> StartBackoff(self)
      [] ~nn_usock_isidle(self.usock) -> nn_fsm_bad(self)
      [] rc = "start_failed" -> StartBackoff(self)
      [] rc = "bind_failed" -> StartBackoff([self EXCEPT !.usock = "active"])
      [] OTHER ->
           nn_epbase_stat_increment(
               [self EXCEPT !.usock = "connecting", !.state = "CONNECTING"],
               "NN_STAT_INPROGRESS_CONNECTIONS", 1)

\* Mutant: the stop request stops the timer, the socket and the resolver
\* without waiting for the slibfabric.
CShutdownStop_NoWait(self) ==
    LET t == IF ~nn_slibfabric_isidle(self.slibfabric)
             THEN [nn_epbase_stat_increment(self,
                       "NN_STAT_DROPPED_CONNECTIONS", 1)
                     EXCEPT !.slibfabric = nn_slibfabric_stop(@)]
             ELSE self
    IN [t EXCEPT !.retry = nn_backoff_stop(@),
                 !.usock = nn_usock_stop(@),
                 !.dns = nn_dns_stop(@),
                 !.state = "STOPPING"]

\* Mutant: every stop request counts a dropped connection.
CShutdownStop_AlwaysCounts(self) ==
    LET t == [nn_epbase_stat_increment(self,
                  "NN_STAT_DROPPED_CONNECTIONS", 1)
                EXCEPT !.slibfabric = nn_slibfabric_stop(@)]
    IN [t EXCEPT !.state = "STOPPING_SLIBFABRIC_FINAL"]

\* The first block of nn_clibfabric_shutdown: the stop request itself.
CShutdownStop(self) ==
    LET t == IF ~nn_slibfabric_isidle(self.slibfabric)
             THEN [nn_epbase_stat_increment(self,
                       "NN_STAT_DROPPED_CONNECTIONS", 1)
                     EXCEPT !.slibfabric = nn_slibfabric_stop(@)]
             ELSE self
    IN [t EXCEPT !.state = "STOPPING_SLIBFABRIC_FINAL"]

\* Mutant: the socket is not asked to stop.
CShutdownSlibfabricIdle_NoUsockStop(self) ==
    [self EXCEPT !.retry = nn_backoff_stop(@),
                 !.dns = nn_dns_stop(@),
                 !.state = "STOPPING"]

\* The block of state STOPPING_SLIBFABRIC_FINAL once the slibfabric is idle.
CShutdownSlibfabricIdle(self) ==
    [self EXCEPT !.retry = nn_backoff_stop(@),
                 !.usock = nn_usock_stop(@),
                 !.dns = nn_dns_stop(@),
                 !.state = "STOPPING"]

\* The block of state STOPPING.
CShutdownStopping(self) ==
    IF \/ ~nn_backoff_isidle(self.retry)
       \/ ~nn_usock_isidle(self.usock)
       \/ ~nn_dns_isidle(self.dns)
    THEN self
    ELSE [self EXCEPT !.state = "IDLE", !.fsm = "idle", !.stopped = @ + 1]

nn_clibfabric_shutdown(self, src, type, srcptr) ==
    LET s1 == IF src = "NN_FSM_ACTION" /\ type = "NN_FSM_STOP"
              THEN CShutdownStop(self)
              ELSE self
    IN
    IF /\ s1.state = "STOPPING_SLIBFABRIC_FINAL"
       /\ ~nn_slibfabric_isidle(s1.slibfabric)
    THEN s1
    ELSE LET s2 == IF s1.state = "STOPPING_SLIBFABRIC_FINAL"
                   THEN CShutdownSlibfabricIdle(s1)
                   ELSE s1
         IN IF s2.state = "STOPPING"
            THEN CShutdownStopping(s2)
            ELSE nn_fsm_bad(s2)

\* Mutant: the connected socket is not handed to the slibfabric.
HandleConnected_NoHandover(self) ==
    nn_epbase_stat_increment(
        nn_epbase_stat_increment(
            [self EXCEPT !.state = "ACTIVE", !.error = 0],
            "NN_STAT_INPROGRESS_CONNECTIONS", -1),
        "NN_STAT_ESTABLISHED_CONNECTIONS", 1)

\* Mutant: an established connection resets the backoff to its base interval.
HandleConnected_ResetsBackoff(self) ==
    nn_epbase_stat_increment(
        nn_epbase_stat_increment(
            [self EXCEPT !.slibfabric = nn_slibfabric_start(@),
                         !.state = "ACTIVE",
                         !.error = 0,
                         !.backoff = nn_backoff_init(@.minivl, @.maxivl)],
            "NN_STAT_INPROGRESS_CONNECTIONS", -1),
        "NN_STAT_ESTABLISHED_CONNECTIONS", 1)

\* The CONNECTED branch of state CONNECTING.
HandleConnected(self) ==
    nn_epbase_stat_increment(
        nn_epbase_stat_increment(
            [self EXCEPT !.slibfabric = nn_slibfabric_start(@),
                         !.state = "ACTIVE",
                         !.error = 0],
            "NN_STAT_INPROGRESS_CONNECTIONS", -1),
        "NN_STAT_ESTABLISHED_CONNECTIONS", 1)

\* Mutant: the failed connect is not counted.
HandleConnectError_NoCount(self) ==
    nn_epbase_stat_increment(
        [self EXCEPT !.error = 1,
                     !.usock = nn_usock_stop(@),
                     !.state = "STOPPING_USOCK"],
        "NN_STAT_INPROGRESS_CONNECTIONS", -1)

\* Mutant: the backoff timer is started at once, while the socket is still
\* stopping.
HandleConnectError_BackoffAtOnce(self) ==
    nn_epbase_stat_increment(
        nn_epbase_stat_increment(
            [self EXCEPT !.error = 1,
                         !.usock = nn_usock_stop(@),
                         !.retry = nn_backoff_start(@),
                         !.backoff = nn_backoff_timeout(@),
                         !.state = "WAITING"],
            "NN_STAT_INPROGRESS_CONNECTIONS", -1),
        "NN_STAT_CONNECT_ERRORS", 1)

\* The ERROR branch of state CONNECTING.
HandleConnectError(self) ==
    nn_epbase_stat_increment(
        nn_epbase_stat_increment(
            [self EXCEPT !.error = 1,
                         !.usock = nn_usock_stop(@),
                         !.state = "STOPPING_USOCK"],
            "NN_STAT_INPROGRESS_CONNECTIONS", -1),
        "NN_STAT_CONNECT_ERRORS", 1)

\* Mutant: the socket is stopped together with the slibfabric.
HandleSlibfabricError_StopsUsock(self) ==
    nn_epbase_stat_increment(
        [self EXCEPT !.slibfabric = nn_slibfabric_stop(@),
                     !.usock = nn_usock_stop(@),
                     !.state = "STOPPING_USOCK"],
        "NN_STAT_BROKEN_CONNECTIONS", 1)

\* The ERROR branch of state ACTIVE.
HandleSlibfabricError(self) ==
    nn_epbase_stat_increment(
        [self EXCEPT !.slibfabric = nn_slibfabric_stop(@),
                     !.state = "STOPPING_SLIBFABRIC"],
        "NN_STAT_BROKEN_CONNECTIONS", 1)

\* Mutant: a delivered result starts the connect at once, without waiting
\* for the resolver to stop.
HandleDnsDone_ConnectsAtOnce(self) ==
    IF self.dns_result.error = 0
    THEN {nn_clibfabric_start_connecting(
             [self EXCEPT !.dns = nn_dns_stop(@)], rc) : rc \in ConnectResults}
    ELSE {[self EXCEPT !.dns = nn_dns_stop(@), !.state = "STOPPING_DNS"]}

\* The DONE branch of state RESOLVING.
HandleDnsDone(self) ==
    {[self EXCEPT !.dns = nn_dns_stop(@), !.state = "STOPPING_DNS"]}

\* The STOPPED branch of state STOPPING_DNS.
HandleDnsStopped(self) ==
    IF self.dns_result.error = 0
    THEN {nn_clibfabric_start_connecting(self, rc) : rc \in ConnectResults}
    ELSE {StartBackoff(self)}

nn_clibfabric_handler(self, src, type, srcptr) ==
    CASE self.state = "IDLE" ->
           IF src = "NN_FSM_ACTION" /\ type = "NN_FSM_START"
           THEN {nn_clibfabric_start_resolving(self)}
           ELSE {nn_fsm_bad(self)}
      [] self.state = "RESOLVING" ->
           IF src = "NN_CLIBFABRIC_SRC_DNS" /\ type = "NN_DNS_DONE"
           THEN HandleDnsDone(self)
           ELSE {nn_fsm_bad(self)}
      [] self.state = "STOPPING_DNS" ->
           IF src = "NN_CLIBFABRIC_SRC_DNS" /\ type = "NN_DNS_STOPPED"
           THEN HandleDnsStopped(self)
           ELSE {nn_fsm_bad(self)}
      [] self.state = "CONNECTING" ->
           IF src # "NN_CLIBFABRIC_SRC_USOCK"
           THEN {nn_fsm_bad(self)}
           ELSE CASE type = "NN_USOCK_CONNECTED" -> {HandleConnected(self)}
                  [] type = "NN_USOCK_ERROR" -> {HandleConnectError(self)}
                  [] OTHER -> {nn_fsm_bad(self)}
      [] self.state = "ACTIVE" ->
           IF src = "NN_CLIBFABRIC_SRC_SLIBFABRIC"
              /\ type = "NN_SLIBFABRIC_ERROR"
           THEN {HandleSlibfabricError(self)}
           ELSE {nn_fsm_bad(self)}
      [] self.state = "STOPPING_SLIBFABRIC" ->
           IF src # "NN_CLIBFABRIC_SRC_SLIBFABRIC"
           THEN {nn_fsm_bad(self)}
           ELSE CASE type = "NN_USOCK_SHUTDOWN" -> {self}
                  [] type = "NN_SLIBFABRIC_STOPPED" ->
                       {[self EXCEPT !.usock = nn_usock_stop(@),
                                     !.state = "STOPPING_USOCK"]}
                  [] OTHER -> {nn_fsm_bad(self)}
      [] self.state = "STOPPING_USOCK" ->
           IF src # "NN_CLIBFABRIC_SRC_USOCK"
           THEN {nn_fsm_bad(self)}
           ELSE CASE type = "NN_USOCK_SHUTDOWN" -> {self}
                  [] type = "NN_USOCK_STOPPED" -> {StartBackoff(self)}
                  [] OTHER -> {nn_fsm_bad(self)}
      [] self.state = "WAITING" ->
           IF src = "NN_CLIBFABRIC_SRC_RECONNECT_TIMER"
              /\ type = "NN_BACKOFF_TIMEOUT"
           THEN {[self EXCEPT !.retry = nn_backoff_stop(@),
                              !.state = "STOPPING_BACKOFF"]}
           ELSE {nn_fsm_bad(self)}
      [] self.state = "STOPPING_BACKOFF" ->
           IF src = "NN_CLIBFABRIC_SRC_RECONNECT_TIMER"
              /\ type = "NN_BACKOFF_STOPPED"
           THEN {nn_clibfabric_start_resolving(self)}
           ELSE {nn_fsm_bad(self)}
      [] OTHER -> {nn_fsm_bad(self)}

\* nn_fsm_feed: events go to the shutdown function once stop was requested.
CFeed(self, src, type, srcptr) ==
    IF self.fsm = "stopping"
    THEN {nn_clibfabric_shutdown(self, src, type, srcptr)}
    ELSE nn_clibfabric_handler(self, src, type, srcptr)

nn_clibfabric_destroy(self) ==
    IF \/ ~nn_dns_isidle(self.dns)
       \/ ~nn_slibfabric_isidle(self.slibfabric)
       \/ ~nn_backoff_isidle(self.retry)
       \/ ~nn_usock_isidle(self.usock)
    THEN nn_fsm_bad(self)
    ELSE [self EXCEPT !.destroyed = TRUE]

CLive == /\ vfptr = "nn_clibfabric_epbase_vfptr"
         /\ ~clibfabric.aborted
         /\ ~clibfabric.destroyed

\* nn_fsm_start at the end of nn_clibfabric_create.
C_Start ==
    /\ CLive
    /\ clibfabric.fsm = "idle" /\ clibfabric.stopped = 0
    /\ clibfabric' \in CFeed([clibfabric EXCEPT !.fsm = "active"],
                             "NN_FSM_ACTION", "NN_FSM_START", NULL)
    /\ UNCHANGED <<vfptr, blibfabric>>

\* nn_clibfabric_stop: the owner asks the endpoint to stop.
C_Stop ==
    /\ CLive
    /\ clibfabric.fsm = "active"
    /\ clibfabric' \in CFeed([clibfabric EXCEPT !.fsm = "stopping"],
                             "NN_FSM_ACTION", "NN_FSM_STOP", NULL)
    /\ UNCHANGED <<vfptr, blibfabric>>

C_Destroy ==
    /\ CLive
    /\ clibfabric.stopped > 0
    /\ clibfabric' = nn_clibfabric_destroy(clibfabric)
    /\ UNCHANGED <<vfptr, blibfabric>>

\* The resolver delivers its result.
C_DnsDone ==
    /\ CLive
    /\ clibfabric.dns = "active"
    /\ \E e \in DnsErrors :
         clibfabric' \in
            CFeed([clibfabric EXCEPT !.dns = "done", !.dns_result.error = e],
                  "NN_CLIBFABRIC_SRC_DNS", "NN_DNS_DONE", NULL)
    /\ UNCHANGED <<vfptr, blibfabric>>

C_DnsStopped ==
    /\ CLive
    /\ clibfabric.dns = "stopping"
    /\ clibfabric' \in CFeed([clibfabric EXCEPT !.dns = "idle"],
                             "NN_CLIBFABRIC_SRC_DNS", "NN_DNS_STOPPED", NULL)
    /\ UNCHANGED <<vfptr, blibfabric>>

\* The connect in flight has succeeded.
C_UsockConnected ==
    /\ CLive
    /\ clibfabric.usock = "connecting"
    /\ clibfabric.stat.NN_STAT_ESTABLISHED_CONNECTIONS < MaxStat
    /\ clibfabric' \in CFeed([clibfabric EXCEPT !.usock = "active"],
                             "NN_CLIBFABRIC_SRC_USOCK",
                             "NN_USOCK_CONNECTED", NULL)
    /\ UNCHANGED <<vfptr, blibfabric>>

\* The connect in flight has failed.
C_UsockError ==
    /\ CLive
    /\ clibfabric.usock = "connecting"
    /\ clibfabric.stat.NN_STAT_CONNECT_ERRORS < MaxStat
    /\ clibfabric' \in CFeed([clibfabric EXCEPT !.usock = "error"],
                             "NN_CLIBFABRIC_SRC_USOCK", "NN_USOCK_ERROR", NULL)
    /\ UNCHANGED <<vfptr, blibfabric>>

C_UsockShutdown ==
    /\ CLive
    /\ clibfabric.usock = "stopping"
    /\ clibfabric' \in CFeed(clibfabric, "NN_CLIBFABRIC_SRC_USOCK",
                             "NN_USOCK_SHUTDOWN", NULL)
    /\ UNCHANGED <<vfptr, blibfabric>>

C_UsockStopped ==
    /\ CLive
    /\ clibfabric.usock = "stopping"
    /\ clibfabric' \in CFeed([clibfabric EXCEPT !.usock = "idle"],
                             "NN_CLIBFABRIC_SRC_USOCK",
                             "NN_USOCK_STOPPED", NULL)
    /\ UNCHANGED <<vfptr, blibfabric>>

C_BackoffTimeout ==
    /\ CLive
    /\ clibfabric.retry = "active"
    /\ clibfabric.backoff.n < MaxBackoffs
    /\ clibfabric' \in
          CFeed([clibfabric EXCEPT !.backoff = nn_backoff_elapsed(@)],
                "NN_CLIBFABRIC_SRC_RECONNECT_TIMER",
                "NN_BACKOFF_TIMEOUT", NULL)
    /\ UNCHANGED <<vfptr, blibfabric>>

C_BackoffStopped ==
    /\ CLive
    /\ clibfabric.retry = "stopping"
    /\ clibfabric' \in CFeed([clibfabric EXCEPT !.retry = "idle"],
                             "NN_CLIBFABRIC_SRC_RECONNECT_TIMER",
                             "NN_BACKOFF_STOPPED", NULL)
    /\ UNCHANGED <<vfptr, blibfabric>>

\* The established connection has failed.
C_SlibfabricError ==
    /\ CLive
    /\ clibfabric.slibfabric = "active"
    /\ clibfabric.stat.NN_STAT_BROKEN_CONNECTIONS < MaxStat
    /\ clibfabric' \in CFeed([clibfabric EXCEPT !.slibfabric = "error"],
                             "NN_CLIBFABRIC_SRC_SLIBFABRIC",
                             "NN_SLIBFABRIC_ERROR", NULL)
    /\ UNCHANGED <<vfptr, blibfabric>>

C_SlibfabricStopped ==
    /\ CLive
    /\ clibfabric.slibfabric = "stopping"
    /\ clibfabric' \in CFeed([clibfabric EXCEPT !.slibfabric = "idle"],
                             "NN_CLIBFABRIC_SRC_SLIBFABRIC",
                             "NN_SLIBFABRIC_STOPPED", NULL)
    /\ UNCHANGED <<vfptr, blibfabric>>

NextC ==
    \/ C_Start
    \/ C_Stop
    \/ C_Destroy
    \/ C_DnsDone
    \/ C_DnsStopped
    \/ C_UsockConnected
    \/ C_UsockError
    \/ C_UsockShutdown
    \/ C_UsockStopped
    \/ C_BackoffTimeout
    \/ C_BackoffStopped
    \/ C_SlibfabricError
    \/ C_SlibfabricStopped

(***************************************************************************)
(* One endpoint of either kind.                                            *)
(***************************************************************************)

Init ==
    /\ vfptr \in {"nn_blibfabric_epbase_vfptr", "nn_clibfabric_epbase_vfptr"}
    /\ \E reconnect_ivl \in ReconnectIvls :
          \E reconnect_ivl_max \in ReconnectIvlMaxes :
             /\ blibfabric =
                   nn_blibfabric_create(reconnect_ivl, reconnect_ivl_max)
             /\ clibfabric =
                   nn_clibfabric_create(reconnect_ivl, reconnect_ivl_max)

Next == NextB \/ NextC

Spec == Init /\ [][Next]_vars

\* The collaborators keep their word: a stop request is acknowledged, a
\* running timer fires and a running resolution delivers a result.
Fairness ==
    /\ WF_vars(B_UsockStopped)
    /\ WF_vars(B_BackoffStopped)
    /\ WF_vars(B_AlibfabricStopped)
    /\ WF_vars(B_BackoffTimeout)
    /\ WF_vars(C_DnsStopped)
    /\ WF_vars(C_UsockStopped)
    /\ WF_vars(C_BackoffStopped)
    /\ WF_vars(C_SlibfabricStopped)
    /\ WF_vars(C_BackoffTimeout)
    /\ WF_vars(C_DnsDone)

FairSpec == Spec /\ Fairness

(***************************************************************************)
(* Properties.                                                             *)
(***************************************************************************)

\* C1: once stop was requested and every collaborator that was asked to stop
\* has reported stopped, the listener has reported itself stopped.  (A state
\* in which stop is pending and no collaborator is stopping any more is a
\* state from which no further event arrives: the listener never stops.)
C1_StopCompletes ==
    (/\ blibfabric.fsm = "stopping"
     /\ blibfabric.usock # "stopping"
     /\ blibfabric.retry # "stopping"
     /\ \A a \in AlibfabricIds : blibfabric.objs[a].state # "stopping")
    => blibfabric.stopped > 0

\* C2: a stop request to the connector is always followed by the stopped
\* notification, and once it is emitted the slibfabric, the socket, the
\* backoff timer and the resolver are all idle.
C2_ConnectorStopConverges ==
    /\ [](clibfabric.fsm = "stopping" => <>(clibfabric.stopped > 0))
    /\ [](clibfabric.stopped > 0 =>
            /\ clibfabric.state = "IDLE"
            /\ clibfabric.slibfabric = "idle"
            /\ clibfabric.usock = "idle"
            /\ clibfabric.retry = "idle"
            /\ clibfabric.dns = "idle")

\* C2 witness: the connector has stopped after a stop request that found an
\* established connection (the request came in ACTIVE).
C2_Witness ==
    /\ clibfabric.stopped > 0
    /\ clibfabric.stat.NN_STAT_DROPPED_CONNECTIONS = 1
    /\ clibfabric.stat.NN_STAT_BROKEN_CONNECTIONS = 0

\* C3: when the listener has reported itself stopped, the backoff timer and
\* the listening socket are idle, the pending acceptor is destroyed and no
\* accepted connection remains.
C3_StoppedMeansDescendantsStopped ==
    blibfabric.stopped > 0 =>
        /\ blibfabric.retry = "idle"
        /\ blibfabric.usock = "idle"
        /\ blibfabric.alibfabric = NULL
        /\ blibfabric.alibfabrics = << >>

\* C4: when the listener starts waiting for its accepted connections, each of
\* them has been asked to stop, and the listener has reported stopped only if
\* the list is empty and every connection it ever accepted was freed.
C4_StopFansOutToAll ==
    /\ blibfabric.state = "STOPPING_ALIBFABRICS" =>
          \A a \in AlibfabricIds :
              InList(blibfabric.alibfabrics, a) =>
                  blibfabric.objs[a].state \in {"stopping", "idle"}
    /\ blibfabric.stopped > 0 =>
          /\ blibfabric.alibfabrics = << >>
          /\ \A a \in AlibfabricIds :
                 blibfabric.objs[a].accepted => blibfabric.objs[a].state = "freed"

\* C4 witness: the listener waits for two accepted connections it asked to stop.
C4_Witness ==
    /\ blibfabric.state = "STOPPING_ALIBFABRICS"
    /\ Len(blibfabric.alibfabrics) = 2
    /\ \A i \in 1 .. 2 :
           blibfabric.objs[blibfabric.alibfabrics[i]].state = "stopping"

\* C5: during shutdown the listening socket is asked to stop only in the step
\* that finds the pending acceptor idle and destroys it, and an accepted
\* connection is asked to stop only when the listening socket is idle.
C5_ShutdownOrdered ==
    [][ blibfabric'.fsm = "stopping" =>
          /\ (blibfabric.usock # "stopping" /\ blibfabric'.usock = "stopping") =>
                /\ blibfabric.alibfabric # NULL
                /\ blibfabric'.alibfabric = NULL
                /\ blibfabric'.objs[blibfabric.alibfabric].state = "freed"
          /\ \A a \in AlibfabricIds :
                (/\ InList(blibfabric.alibfabrics, a)
                 /\ blibfabric.objs[a].state \in {"active", "error"}
                 /\ blibfabric'.objs[a].state = "stopping")
                => blibfabric'.usock = "idle" ]_vars

\* C5 witness: the socket is stopping, the pending acceptor is gone and an
\* accepted connection has not been asked to stop yet.
C5_Witness ==
    /\ blibfabric.state = "STOPPING_USOCK"
    /\ blibfabric.usock = "stopping"
    /\ blibfabric.alibfabric = NULL
    /\ \E a \in AlibfabricIds :
          /\ InList(blibfabric.alibfabrics, a)
          /\ blibfabric.objs[a].state = "active"

\* C6: after a stop request the connector asks the backoff timer, the socket
\* or the resolver to stop only when the slibfabric is idle, and it reports
\* stopped only in a step that leaves all three idle.
C6_ConnectorShutdownOrdered ==
    [][ /\ (clibfabric'.fsm = "stopping" \/ clibfabric.fsm = "stopping") =>
              ((\/ clibfabric.retry # "stopping" /\ clibfabric'.retry = "stopping"
                \/ clibfabric.usock # "stopping" /\ clibfabric'.usock = "stopping"
                \/ clibfabric.dns # "stopping" /\ clibfabric'.dns = "stopping")
               => clibfabric'.slibfabric = "idle")
        /\ clibfabric'.stopped > clibfabric.stopped =>
              /\ clibfabric'.retry = "idle"
              /\ clibfabric'.usock = "idle"
              /\ clibfabric'.dns = "idle" ]_vars

\* C6 witness: the connector was stopped with a connection established, has
\* waited for the slibfabric and is now waiting for the socket.
C6_Witness ==
    /\ clibfabric.state = "STOPPING"
    /\ clibfabric.usock = "stopping"
    /\ clibfabric.slibfabric = "idle"
    /\ clibfabric.stat.NN_STAT_DROPPED_CONNECTIONS = 1

\* C7: while the listener is ACTIVE exactly one acceptor is pending, and the
\* step that handles ACCEPTED appends the acceptor to the list of accepted
\* connections and installs a fresh pending acceptor.
C7_OnePendingAcceptor ==
    /\ [](blibfabric.state = "ACTIVE" =>
            /\ blibfabric.alibfabric # NULL
            /\ ~InList(blibfabric.alibfabrics, blibfabric.alibfabric)
            /\ \A a \in AlibfabricIds :
                   blibfabric.objs[a].state = "accepting"
                       <=> a = blibfabric.alibfabric)
    /\ [][ \A a \in AlibfabricIds :
             (~blibfabric.objs[a].accepted /\ blibfabric'.objs[a].accepted) =>
                 /\ blibfabric.alibfabric = a
                 /\ blibfabric'.alibfabrics = Append(blibfabric.alibfabrics, a)
                 /\ blibfabric'.alibfabric \notin {NULL, a}
                 /\ blibfabric'.objs[blibfabric'.alibfabric].state = "accepting"
                 /\ blibfabric'.state = "ACTIVE" ]_vars

\* C7 witness: the listener is ACTIVE after two accepted connections.
C7_Witness ==
    /\ blibfabric.state = "ACTIVE"
    /\ Len(blibfabric.alibfabrics) = 2
    /\ blibfabric.alibfabric # NULL

\* C8: the list of accepted connections holds as many entries as connections
\* were accepted minus those freed on their STOPPED event, holds none twice
\* and holds no freed object.
C8_ListSize ==
    /\ Len(blibfabric.alibfabrics) =
          Cardinality({a \in AlibfabricIds : blibfabric.objs[a].accepted})
          - Cardinality({a \in AlibfabricIds :
                            /\ blibfabric.objs[a].accepted
                            /\ blibfabric.objs[a].state = "freed"})
    /\ \A i \in 1 .. Len(blibfabric.alibfabrics) :
          /\ blibfabric.objs[blibfabric.alibfabrics[i]].state # "freed"
          /\ blibfabric.objs[blibfabric.alibfabrics[i]].accepted
          /\ \A j \in 1 .. Len(blibfabric.alibfabrics) :
                 blibfabric.alibfabrics[i] = blibfabric.alibfabrics[j] => i = j

\* C8 witness: two connections were accepted and one of them was removed.
C8_Witness ==
    /\ Len(blibfabric.alibfabrics) = 1
    /\ Cardinality({a \in AlibfabricIds : blibfabric.objs[a].accepted}) = 2

\* C9: in the connector's retry cycle after a failed connect attempt the
\* backoff timer is running while WAITING and no started socket is carried
\* into the next attempt.
C9_FailedAttemptLeavesNoSocket ==
    /\ (clibfabric.fsm = "active" /\ clibfabric.state = "WAITING") =>
           clibfabric.retry = "active"
    /\ (/\ clibfabric.fsm = "active"
        /\ clibfabric.state \in {"WAITING", "STOPPING_BACKOFF",
                                 "RESOLVING", "STOPPING_DNS"})
       => clibfabric.usock = "idle"

\* C10 as stated: the listener enters WAITING (starts the backoff timer) only
\* from CLOSING, that is only after the socket was stopped and has reported
\* stopped.
C10_BackoffOnlyAfterSocketStopped ==
    [][ (blibfabric.state # "WAITING" /\ blibfabric'.state = "WAITING")
          => blibfabric.state = "CLOSING" ]_vars

\* C10 amended: a bind or listen failure asks the socket to stop (CLOSING) and
\* the backoff timer is started from CLOSING only when the socket has reported
\* stopped; an open failure, which leaves no socket started, starts the timer
\* at once.  The socket is idle whenever WAITING is entered, and the retry
\* after the timeout runs the whole sequence on an idle socket.
C10_FailureStopsStartedSocket ==
    [][ /\ (blibfabric.state # "CLOSING" /\ blibfabric'.state = "CLOSING") =>
              /\ blibfabric.state \in {"IDLE", "STOPPING_BACKOFF"}
              /\ blibfabric'.usock = "stopping"
              /\ blibfabric'.retry = "idle"
        /\ (blibfabric.state # "WAITING" /\ blibfabric'.state = "WAITING") =>
              /\ blibfabric'.usock = "idle"
              /\ blibfabric'.retry = "active"
              /\ \/ blibfabric.state = "CLOSING" /\ blibfabric.usock = "stopping"
                 \/ /\ blibfabric.state \in {"IDLE", "STOPPING_BACKOFF"}
                    /\ blibfabric.usock = "idle"
        /\ (/\ blibfabric.state = "STOPPING_BACKOFF"
            /\ blibfabric'.state # "STOPPING_BACKOFF"
            /\ blibfabric'.fsm = "active") =>
              /\ blibfabric.usock = "idle"
              /\ blibfabric'.state \in {"WAITING", "CLOSING", "ACTIVE"} ]_vars

\* C10 witness: a bind or listen failure of a retry: the socket is stopping
\* in CLOSING.
C10_Witness ==
    /\ blibfabric.state = "CLOSING"
    /\ blibfabric.fsm = "active"
    /\ blibfabric.usock = "stopping"

\* C11: a socket error received in CONNECTING adds one to the connect-error
\* counter and leads to STOPPING_USOCK with the socket asked to stop, never to
\* ACTIVE; from there the connector comes back to ACTIVE only through
\* WAITING, STOPPING_BACKOFF, RESOLVING, STOPPING_DNS and CONNECTING.
C11_ConnectErrorCountedAndRetried ==
    [][ /\ (C_UsockError /\ clibfabric.state = "CONNECTING") =>
              /\ clibfabric'.stat.NN_STAT_CONNECT_ERRORS =
                    clibfabric.stat.NN_STAT_CONNECT_ERRORS + 1
              /\ clibfabric'.stat.NN_STAT_INPROGRESS_CONNECTIONS =
                    clibfabric.stat.NN_STAT_INPROGRESS_CONNECTIONS - 1
              /\ clibfabric'.state = "STOPPING_USOCK"
              /\ clibfabric'.usock = "stopping"
              /\ clibfabric'.slibfabric = "idle"
              /\ ~clibfabric'.aborted
        /\ (clibfabric'.fsm = "active" /\ clibfabric'.state # clibfabric.state) =>
              /\ clibfabric.state = "STOPPING_USOCK" =>
                    clibfabric'.state = "WAITING"
              /\ clibfabric.state = "WAITING" =>
                    clibfabric'.state = "STOPPING_BACKOFF"
              /\ clibfabric.state = "STOPPING_BACKOFF" =>
                    clibfabric'.state = "RESOLVING"
              /\ clibfabric.state = "RESOLVING" =>
                    clibfabric'.state = "STOPPING_DNS"
              /\ clibfabric.state = "STOPPING_DNS" =>
                    clibfabric'.state \in {"CONNECTING", "WAITING"}
              /\ clibfabric'.state = "ACTIVE" =>
                    clibfabric.state = "CONNECTING" ]_vars

\* C11 witness: a connect has failed and the connector waits for the socket
\* to stop.
C11_Witness ==
    /\ clibfabric.fsm = "active"
    /\ clibfabric.state = "STOPPING_USOCK"
    /\ clibfabric.usock = "stopping"
    /\ clibfabric.stat.NN_STAT_CONNECT_ERRORS = 1
    /\ clibfabric.stat.NN_STAT_BROKEN_CONNECTIONS = 0

\* C12: an error of the slibfabric in ACTIVE asks the slibfabric to stop and
\* nothing else; its STOPPED asks the socket to stop; the socket's STOPPED
\* starts the backoff timer; CONNECTING is entered only from STOPPING_DNS with
\* the resolver stopped after a new resolution, never from the states a
\* broken connection passes through; and unless stop is requested the broken
\* connection is followed by a new resolution (as long as the timer completes
\* its countdown, that is below MaxBackoffs).
C12_BrokenConnectionReResolves ==
    /\ [][ (clibfabric'.fsm = "active" /\ clibfabric'.state # clibfabric.state) =>
              /\ clibfabric.state = "ACTIVE" =>
                    /\ clibfabric'.state = "STOPPING_SLIBFABRIC"
                    /\ clibfabric'.slibfabric = "stopping"
                    /\ clibfabric'.usock = clibfabric.usock
                    /\ clibfabric'.retry = clibfabric.retry
                    /\ clibfabric'.dns = clibfabric.dns
              /\ clibfabric.state = "STOPPING_SLIBFABRIC" =>
                    /\ clibfabric'.state = "STOPPING_USOCK"
                    /\ clibfabric'.slibfabric = "idle"
                    /\ clibfabric'.usock = "stopping"
                    /\ clibfabric'.retry = "idle"
              /\ clibfabric.state = "STOPPING_USOCK" =>
                    /\ clibfabric'.state = "WAITING"
                    /\ clibfabric'.usock = "idle"
                    /\ clibfabric'.retry = "active"
              /\ clibfabric.state = "WAITING" =>
                    clibfabric'.state = "STOPPING_BACKOFF"
              /\ clibfabric.state = "STOPPING_BACKOFF" =>
                    /\ clibfabric'.state = "RESOLVING"
                    /\ clibfabric'.dns = "active"
              /\ clibfabric'.state = "CONNECTING" =>
                    /\ clibfabric.state = "STOPPING_DNS"
                    /\ clibfabric.dns = "stopping"
                    /\ clibfabric'.dns = "idle" ]_vars
    /\ []((/\ clibfabric.fsm = "active"
           /\ clibfabric.state = "STOPPING_SLIBFABRIC"
           /\ clibfabric.backoff.n < MaxBackoffs)
            => <>(clibfabric.state = "RESOLVING" \/ clibfabric.fsm # "active"))

\* C12 witness: an established connection broke and the connector is
\* resolving again.
C12_Witness ==
    /\ clibfabric.fsm = "active"
    /\ clibfabric.state = "RESOLVING"
    /\ clibfabric.stat.NN_STAT_BROKEN_CONNECTIONS = 1
    /\ clibfabric.stat.NN_STAT_ESTABLISHED_CONNECTIONS = 1

\* C13: the connector starts a connect (takes the socket out of idle, or
\* enters CONNECTING) only in the step in which the resolver reports stopped
\* after a result without error; the step that delivers the result only asks
\* the resolver to stop; and the resolver's STOPPED after a failed resolution
\* starts the backoff timer and enters WAITING with the socket untouched.
C13_ConnectAfterResultAndResolverIdle ==
    [][ clibfabric'.fsm = "active" =>
          /\ (\/ clibfabric.usock = "idle" /\ clibfabric'.usock # "idle"
              \/ clibfabric.state # "CONNECTING"
                   /\ clibfabric'.state = "CONNECTING") =>
                /\ clibfabric.state = "STOPPING_DNS"
                /\ clibfabric.dns = "stopping"
                /\ clibfabric'.dns = "idle"
                /\ clibfabric.dns_result.error = 0
          /\ (clibfabric.state = "RESOLVING"
                /\ clibfabric'.state # "RESOLVING") =>
                /\ clibfabric'.state = "STOPPING_DNS"
                /\ clibfabric'.dns = "stopping"
                /\ clibfabric'.usock = clibfabric.usock
                /\ clibfabric'.retry = clibfabric.retry
          /\ (/\ clibfabric.state = "STOPPING_DNS"
              /\ clibfabric'.state # "STOPPING_DNS"
              /\ clibfabric.dns_result.error # 0) =>
                /\ clibfabric'.state = "WAITING"
                /\ clibfabric'.retry = "active"
                /\ clibfabric'.dns = "idle"
                /\ clibfabric'.usock = clibfabric.usock ]_vars

\* C13 witness: a connect is in flight after a successful resolution whose
\* resolver has stopped.
C13_Witness ==
    /\ clibfabric.fsm = "active"
    /\ clibfabric.state = "CONNECTING"
    /\ clibfabric.usock = "connecting"
    /\ clibfabric.dns = "idle"
    /\ clibfabric.dns_result.error = 0

\* C14: when the resolver has stopped after a failed resolution the connector
\* is WAITING with the backoff timer running; the timer's TIMEOUT asks the
\* timer to stop (STOPPING_BACKOFF) and its STOPPED starts a new resolution
\* (RESOLVING, resolver running); and unless stop is requested a failed
\* resolution is always followed by a new resolution attempt (as long as the
\* timer completes its countdown, that is below MaxBackoffs).
C14_ResolutionFailureRetries ==
    /\ [][ clibfabric'.fsm = "active" =>
             /\ (/\ clibfabric.state = "STOPPING_DNS"
                 /\ clibfabric'.state # "STOPPING_DNS"
                 /\ clibfabric.dns_result.error # 0) =>
                   /\ clibfabric'.state = "WAITING"
                   /\ clibfabric'.retry = "active"
             /\ (clibfabric.state = "WAITING"
                   /\ clibfabric'.state # "WAITING") =>
                   /\ clibfabric.retry = "active"
                   /\ clibfabric'.state = "STOPPING_BACKOFF"
                   /\ clibfabric'.retry = "stopping"
             /\ (clibfabric.state = "STOPPING_BACKOFF"
                   /\ clibfabric'.state # "STOPPING_BACKOFF") =>
                   /\ clibfabric'.state = "RESOLVING"
                   /\ clibfabric'.retry = "idle"
                   /\ clibfabric'.dns = "active" ]_vars
    /\ []((/\ clibfabric.fsm = "active"
           /\ clibfabric.state = "STOPPING_DNS"
           /\ clibfabric.dns_result.error # 0
           /\ clibfabric.backoff.n < MaxBackoffs)
            => <>(clibfabric.state = "RESOLVING" \/ clibfabric.fsm # "active"))

\* C14 witness: the connector is WAITING after a resolution that failed, with
\* no connect attempted so far.
C14_Witness ==
    /\ clibfabric.fsm = "active"
    /\ clibfabric.state = "WAITING"
    /\ clibfabric.retry = "active"
    /\ clibfabric.dns_result.error # 0
    /\ clibfabric.stat.NN_STAT_INPROGRESS_CONNECTIONS = 0
    /\ clibfabric.stat.NN_STAT_CONNECT_ERRORS = 0
    /\ clibfabric.stat.NN_STAT_ESTABLISHED_CONNECTIONS = 0

\* C15: the connector enters ACTIVE only from CONNECTING, in the step that
\* handles the socket's CONNECTED event, and that step starts the slibfabric
\* on the connected socket; while ACTIVE the slibfabric owns the socket.
C15_ActiveOnlyOnConnected ==
    /\ [](clibfabric.state = "ACTIVE" =>
            /\ clibfabric.slibfabric = "active"
            /\ clibfabric.usock = "active")
    /\ [][ (clibfabric.state # "ACTIVE" /\ clibfabric'.state = "ACTIVE") =>
              /\ C_UsockConnected
              /\ clibfabric.fsm = "active"
              /\ clibfabric.state = "CONNECTING"
              /\ clibfabric.usock = "connecting"
              /\ clibfabric'.usock = "active"
              /\ clibfabric.slibfabric = "idle"
              /\ clibfabric'.slibfabric = "active"
              /\ clibfabric'.stat.NN_STAT_ESTABLISHED_CONNECTIONS =
                    clibfabric.stat.NN_STAT_ESTABLISHED_CONNECTIONS + 1 ]_vars

\* C15 witness: the connector is ACTIVE for the second time.
C15_Witness ==
    /\ clibfabric.fsm = "active"
    /\ clibfabric.state = "ACTIVE"
    /\ clibfabric.slibfabric = "active"
    /\ clibfabric.stat.NN_STAT_ESTABLISHED_CONNECTIONS = 2

(***************************************************************************)
(* Events an endpoint can be handed, and the events each state is meant to *)
(* handle: the cases of the handlers and the order of the shutdown         *)
(* protocols.  The acknowledgement of the timer's stop is expected in      *)
(* every shutdown state, since shutdown stops the timer first.             *)
(***************************************************************************)

EventTypes ==
    {"NN_FSM_START", "NN_FSM_STOP",
     "NN_USOCK_CONNECTED", "NN_USOCK_ERROR", "NN_USOCK_SHUTDOWN",
     "NN_USOCK_STOPPED", "NN_BACKOFF_TIMEOUT", "NN_BACKOFF_STOPPED",
     "NN_ALIBFABRIC_ACCEPTED", "NN_ALIBFABRIC_ERROR", "NN_ALIBFABRIC_STOPPED",
     "NN_DNS_DONE", "NN_DNS_STOPPED",
     "NN_SLIBFABRIC_ERROR", "NN_SLIBFABRIC_STOPPED"}

\* The events of the listener's sources; an alibfabric event comes from the
\* pending acceptor or from an accepted connection of the list.
BEvents(self) ==
    ({"NN_FSM_ACTION"} \X EventTypes \X {NULL})
    \cup ({"NN_BLIBFABRIC_SRC_USOCK"} \X EventTypes \X {UsockPtr})
    \cup ({"NN_BLIBFABRIC_SRC_RECONNECT_TIMER"} \X EventTypes \X {RetryPtr})
    \cup ({"NN_BLIBFABRIC_SRC_ALIBFABRIC"} \X EventTypes \X
            {a \in AlibfabricIds :
                a = self.alibfabric \/ InList(self.alibfabrics, a)})

BLegal(self, src, type, srcptr) ==
    IF src = "NN_FSM_ACTION"
    THEN \/ type = "NN_FSM_START" /\ self.fsm = "idle" /\ self.state = "IDLE"
         \/ type = "NN_FSM_STOP" /\ self.fsm = "active"
    ELSE IF self.fsm = "stopping"
    THEN \/ src = "NN_BLIBFABRIC_SRC_RECONNECT_TIMER"
              /\ type = "NN_BACKOFF_STOPPED"
         \/ /\ self.state = "STOPPING_ALIBFABRIC"
            /\ src = "NN_BLIBFABRIC_SRC_ALIBFABRIC"
            /\ type = "NN_ALIBFABRIC_STOPPED"
            /\ srcptr = self.alibfabric
         \/ /\ self.state = "STOPPING_USOCK"
            /\ src = "NN_BLIBFABRIC_SRC_USOCK"
            /\ type \in {"NN_USOCK_SHUTDOWN", "NN_USOCK_STOPPED"}
         \/ /\ self.state = "STOPPING_ALIBFABRICS"
            /\ src = "NN_BLIBFABRIC_SRC_ALIBFABRIC"
            /\ type = "NN_ALIBFABRIC_STOPPED"
            /\ InList(self.alibfabrics, srcptr)
    ELSE \/ /\ self.state = "ACTIVE"
            /\ src = "NN_BLIBFABRIC_SRC_ALIBFABRIC"
            /\ \/ type = "NN_ALIBFABRIC_ACCEPTED" /\ srcptr = self.alibfabric
               \/ /\ type \in {"NN_ALIBFABRIC_ERROR", "NN_ALIBFABRIC_STOPPED"}
                  /\ InList(self.alibfabrics, srcptr)
         \/ /\ self.state = "CLOSING"
            /\ src = "NN_BLIBFABRIC_SRC_USOCK"
            /\ type \in {"NN_USOCK_SHUTDOWN", "NN_USOCK_STOPPED"}
         \/ /\ self.state = "WAITING"
            /\ src = "NN_BLIBFABRIC_SRC_RECONNECT_TIMER"
            /\ type = "NN_BACKOFF_TIMEOUT"
         \/ /\ self.state = "STOPPING_BACKOFF"
            /\ src = "NN_BLIBFABRIC_SRC_RECONNECT_TIMER"
            /\ type = "NN_BACKOFF_STOPPED"

CEvents ==
    {"NN_FSM_ACTION", "NN_CLIBFABRIC_SRC_USOCK",
     "NN_CLIBFABRIC_SRC_RECONNECT_TIMER", "NN_CLIBFABRIC_SRC_DNS",
     "NN_CLIBFABRIC_SRC_SLIBFABRIC"} \X EventTypes \X {NULL}

CLegal(self, src, type, srcptr) ==
    IF src = "NN_FSM_ACTION"
    THEN \/ type = "NN_FSM_START" /\ self.fsm = "idle" /\ self.state = "IDLE"
         \/ type = "NN_FSM_STOP" /\ self.fsm = "active"
    ELSE IF self.fsm = "stopping"
    THEN \/ /\ self.state = "STOPPING_SLIBFABRIC_FINAL"
            /\ src = "NN_CLIBFABRIC_SRC_SLIBFABRIC"
            /\ type \in {"NN_USOCK_SHUTDOWN", "NN_SLIBFABRIC_STOPPED"}
         \/ /\ self.state = "STOPPING"
            /\ \/ src = "NN_CLIBFABRIC_SRC_RECONNECT_TIMER"
                    /\ type = "NN_BACKOFF_STOPPED"
               \/ src = "NN_CLIBFABRIC_SRC_USOCK"
                    /\ type \in {"NN_USOCK_SHUTDOWN", "NN_USOCK_STOPPED"}
               \/ src = "NN_CLIBFABRIC_SRC_DNS" /\ type = "NN_DNS_STOPPED"
    ELSE \/ /\ self.state = "RESOLVING"
            /\ src = "NN_CLIBFABRIC_SRC_DNS" /\ type = "NN_DNS_DONE"
         \/ /\ self.state = "STOPPING_DNS"
            /\ src = "NN_CLIBFABRIC_SRC_DNS" /\ type = "NN_DNS_STOPPED"
         \/ /\ self.state = "CONNECTING"
            /\ src = "NN_CLIBFABRIC_SRC_USOCK"
            /\ type \in {"NN_USOCK_CONNECTED", "NN_USOCK_ERROR"}
         \/ /\ self.state = "ACTIVE"
            /\ src = "NN_CLIBFABRIC_SRC_SLIBFABRIC"
            /\ type = "NN_SLIBFABRIC_ERROR"
         \/ /\ self.state = "STOPPING_SLIBFABRIC"
            /\ src = "NN_CLIBFABRIC_SRC_SLIBFABRIC"
            /\ type \in {"NN_USOCK_SHUTDOWN", "NN_SLIBFABRIC_STOPPED"}
         \/ /\ self.state = "STOPPING_USOCK"
            /\ src = "NN_CLIBFABRIC_SRC_USOCK"
            /\ type \in {"NN_USOCK_SHUTDOWN", "NN_USOCK_STOPPED"}
         \/ /\ self.state = "WAITING"
            /\ src = "NN_CLIBFABRIC_SRC_RECONNECT_TIMER"
            /\ type = "NN_BACKOFF_TIMEOUT"
         \/ /\ self.state = "STOPPING_BACKOFF"
            /\ src = "NN_CLIBFABRIC_SRC_RECONNECT_TIMER"
            /\ type = "NN_BACKOFF_STOPPED"

\* C16: in every state of either endpoint, the shutdown states included, an
\* event whose source or type the state is not meant to handle aborts the
\* process: every outcome of handing it to the endpoint is the abort.
C16_UnexpectedEventAborts ==
    /\ BLive =>
         \A ev \in BEvents(blibfabric) :
            ~BLegal(blibfabric, ev[1], ev[2], ev[3]) =>
               \A r \in BFeed(blibfabric, ev[1], ev[2], ev[3]) : r.aborted
    /\ CLive =>
         \A ev \in CEvents :
            ~CLegal(clibfabric, ev[1], ev[2], ev[3]) =>
               \A r \in CFeed(clibfabric, ev[1], ev[2], ev[3]) : r.aborted

\* C17: the step in which an accepted connection raises its error while the
\* listener is ACTIVE asks that connection to stop and changes nothing else:
\* the listener stays ACTIVE, the pending acceptor, the listening socket and
\* the timer are untouched, the list is unchanged and so is every other
\* connection.
C17_ConnectionErrorStopsOnlyItself ==
    [][ \A a \in AlibfabricIds :
          (/\ blibfabric.fsm = "active"
           /\ blibfabric.state = "ACTIVE"
           /\ blibfabric.objs[a].state = "active"
           /\ blibfabric'.objs[a].state # "active") =>
              /\ blibfabric'.objs[a] = [blibfabric.objs[a] EXCEPT
                                           !.state = "stopping"]
              /\ \A b \in AlibfabricIds \ {a} :
                     blibfabric'.objs[b] = blibfabric.objs[b]
              /\ blibfabric'.state = "ACTIVE"
              /\ blibfabric'.fsm = "active"
              /\ blibfabric'.alibfabric = blibfabric.alibfabric
              /\ blibfabric'.alibfabrics = blibfabric.alibfabrics
              /\ blibfabric'.usock = blibfabric.usock
              /\ blibfabric'.retry = blibfabric.retry
              /\ blibfabric'.stopped = blibfabric.stopped
              /\ ~blibfabric'.aborted ]_vars

\* C17 witness: the listener is ACTIVE with two accepted connections, one
\* asked to stop after its error and the other still active.
C17_Witness ==
    /\ blibfabric.fsm = "active"
    /\ blibfabric.state = "ACTIVE"
    /\ Len(blibfabric.alibfabrics) = 2
    /\ \E a, b \in AlibfabricIds :
          /\ InList(blibfabric.alibfabrics, a)
          /\ InList(blibfabric.alibfabrics, b)
          /\ blibfabric.objs[a].state = "stopping"
          /\ blibfabric.objs[b].state = "active"

C19_DestroyedOnceWhenIdle ==
    /\ [](\A a \in AlibfabricIds :
            blibfabric.objs[a].state = "freed" =>
               /\ blibfabric.alibfabric # a
               /\ ~InList(blibfabric.alibfabrics, a))
    /\ [][ \A a \in AlibfabricIds :
             /\ blibfabric.objs[a].state = "freed" =>
                   blibfabric'.objs[a].state = "freed"
             /\ (blibfabric.objs[a].state # "freed"
                   /\ blibfabric'.objs[a].state = "freed") =>
                   /\ B_AlibfabricStopped
                   /\ blibfabric.objs[a].state = "stopping"
                   /\ ~blibfabric'.aborted
                   /\ \A b \in AlibfabricIds \ {a} :
                          blibfabric'.objs[b].state = "freed" =>
                             blibfabric.objs[b].state = "freed"
                   /\ \/ /\ InList(blibfabric.alibfabrics, a)
                         /\ blibfabric'.alibfabrics =
                               nn_list_erase(blibfabric.alibfabrics, a)
                      \/ /\ blibfabric.alibfabric = a
                         /\ blibfabric'.alibfabric = NULL
                         /\ blibfabric.fsm = "stopping"
                         /\ blibfabric.state = "STOPPING_ALIBFABRIC" ]_vars

\* C19 witness: the listener has stopped after freeing its pending acceptor
\* and two accepted connections.
C19_Witness ==
    /\ blibfabric.stopped > 0
    /\ Cardinality({a \in AlibfabricIds :
                       blibfabric.objs[a].state = "freed"}) = 3
    /\ Cardinality({a \in AlibfabricIds : blibfabric.objs[a].accepted}) = 2

\* C20: while the backoff timer of an endpoint is counting down after k
\* earlier countdowns (k earlier failures), its interval is
\* min(base * 2^k, max), where base and max are the configured
\* NN_RECONNECT_IVL and NN_RECONNECT_IVL_MAX and a configured max of zero
\* counts as base; the timer was initialised with that maximum.
C20_BackoffInterval ==
    /\ blibfabric.backoff.maxivl =
          (IF blibfabric.options.NN_RECONNECT_IVL_MAX = 0
           THEN blibfabric.options.NN_RECONNECT_IVL
           ELSE blibfabric.options.NN_RECONNECT_IVL_MAX)
    /\ clibfabric.backoff.maxivl =
          (IF clibfabric.options.NN_RECONNECT_IVL_MAX = 0
           THEN clibfabric.options.NN_RECONNECT_IVL
           ELSE clibfabric.options.NN_RECONNECT_IVL_MAX)
    /\ blibfabric.retry = "active" =>
          blibfabric.backoff.timeout =
             Min(blibfabric.options.NN_RECONNECT_IVL * 2 ^ blibfabric.backoff.n,
                 IF blibfabric.options.NN_RECONNECT_IVL_MAX = 0
                 THEN blibfabric.options.NN_RECONNECT_IVL
                 ELSE blibfabric.options.NN_RECONNECT_IVL_MAX)
    /\ clibfabric.retry = "active" =>
          clibfabric.backoff.timeout =
             Min(clibfabric.options.NN_RECONNECT_IVL * 2 ^ clibfabric.backoff.n,
                 IF clibfabric.options.NN_RECONNECT_IVL_MAX = 0
                 THEN clibfabric.options.NN_RECONNECT_IVL
                 ELSE clibfabric.options.NN_RECONNECT_IVL_MAX)

\* C20 witness: a listener configured with a maximum of zero waits for its
\* third retry with the base interval.
C20_Witness ==
    /\ blibfabric.retry = "active"
    /\ blibfabric.state = "WAITING"
    /\ blibfabric.options.NN_RECONNECT_IVL_MAX = 0
    /\ blibfabric.backoff.n = 2
    /\ blibfabric.backoff.timeout = blibfabric.options.NN_RECONNECT_IVL

\* C21: over the lifetime of an endpoint the intervals of its backoff timer
\* never decrease: no step lowers the interval of the last countdown or the
\* number of completed countdowns, and none changes the base or the maximum
\* the timer was initialised with; stopping the timer between retries and
\* establishing a connection leave the timer's interval state as it is.
C21_BackoffNeverReset ==
    [][ /\ blibfabric'.backoff.timeout >= blibfabric.backoff.timeout
        /\ blibfabric'.backoff.n >= blibfabric.backoff.n
        /\ blibfabric'.backoff.minivl = blibfabric.backoff.minivl
        /\ blibfabric'.backoff.maxivl = blibfabric.backoff.maxivl
        /\ clibfabric'.backoff.timeout >= clibfabric.backoff.timeout
        /\ clibfabric'.backoff.n >= clibfabric.backoff.n
        /\ clibfabric'.backoff.minivl = clibfabric.backoff.minivl
        /\ clibfabric'.backoff.maxivl = clibfabric.backoff.maxivl
        /\ (blibfabric.retry = "stopping" /\ blibfabric'.retry = "idle") =>
              blibfabric'.backoff = blibfabric.backoff
        /\ (clibfabric.retry = "stopping" /\ clibfabric'.retry = "idle") =>
              clibfabric'.backoff = clibfabric.backoff
        /\ (clibfabric.state # "ACTIVE" /\ clibfabric'.state = "ACTIVE") =>
              clibfabric'.backoff = clibfabric.backoff ]_vars

\* C21 witness: the connector waits with a grown interval after a connection
\* that was established and broke.
C21_Witness ==
    /\ clibfabric.fsm = "active"
    /\ clibfabric.state = "WAITING"
    /\ clibfabric.retry = "active"
    /\ clibfabric.stat.NN_STAT_ESTABLISHED_CONNECTIONS = 1
    /\ clibfabric.stat.NN_STAT_BROKEN_CONNECTIONS = 1
    /\ clibfabric.backoff.n = 2
    /\ clibfabric.backoff.timeout = 4

\* C22: the step of a stop request to the connector asks an active slibfabric
\* to stop and adds exactly one to the dropped-connections counter; with an
\* idle slibfabric it sends no stop and leaves the counter unchanged; no
\* other step changes the counter.
C22_StopCountsDroppedConnection ==
    [][ /\ C_Stop =>
             /\ clibfabric.slibfabric = "active" =>
                   /\ clibfabric'.slibfabric = "stopping"
                   /\ clibfabric'.stat.NN_STAT_DROPPED_CONNECTIONS =
                         clibfabric.stat.NN_STAT_DROPPED_CONNECTIONS + 1
                   /\ clibfabric'.state = "STOPPING_SLIBFABRIC_FINAL"
             /\ clibfabric.slibfabric = "idle" =>
                   /\ clibfabric'.slibfabric = "idle"
                   /\ clibfabric'.stat.NN_STAT_DROPPED_CONNECTIONS =
                         clibfabric.stat.NN_STAT_DROPPED_CONNECTIONS
        /\ clibfabric'.stat.NN_STAT_DROPPED_CONNECTIONS #
              clibfabric.stat.NN_STAT_DROPPED_CONNECTIONS => C_Stop ]_vars

\* C22 witness: stop was requested in ACTIVE; the slibfabric was asked to stop
\* and one dropped connection is counted.
C22_Witness ==
    /\ clibfabric.fsm = "stopping"
    /\ clibfabric.state = "STOPPING_SLIBFABRIC_FINAL"
    /\ clibfabric.slibfabric = "stopping"
    /\ clibfabric.stat.NN_STAT_DROPPED_CONNECTIONS = 1
    /\ clibfabric.stat.NN_STAT_BROKEN_CONNECTIONS = 0
    /\ clibfabric.stat.NN_STAT_ESTABLISHED_CONNECTIONS = 1

\* C23: in whatever state the listener is, the step in which an accepted
\* connection of the list reports stopped (it was stopping and is no longer)
\* removes that connection from the list and frees it.
C23_StoppedConnectionRemoved ==
    [][ \A a \in AlibfabricIds :
          (/\ InList(blibfabric.alibfabrics, a)
           /\ blibfabric.objs[a].state = "stopping"
           /\ blibfabric'.objs[a].state # "stopping") =>
              /\ blibfabric'.objs[a].state = "freed"
              /\ ~InList(blibfabric'.alibfabrics, a) ]_vars

\* C24: a connect error in CONNECTING asks the socket to stop and leaves the
\* backoff timer idle; while the connector waits for the socket
\* (STOPPING_USOCK) the timer stays idle; the timer is started, and WAITING
\* entered, only in the step in which the socket reports stopped; and the
\* socket stays idle as long as the connector is in that WAITING.
C24_BackoffAfterSocketStopped ==
    /\ []((clibfabric.fsm = "active" /\ clibfabric.state = "STOPPING_USOCK") =>
            /\ clibfabric.usock = "stopping"
            /\ clibfabric.retry = "idle")
    /\ [][ clibfabric'.fsm = "active" =>
             /\ (C_UsockError /\ clibfabric.state = "CONNECTING") =>
                   /\ clibfabric'.state = "STOPPING_USOCK"
                   /\ clibfabric'.usock = "stopping"
                   /\ clibfabric'.retry = "idle"
                   /\ clibfabric'.backoff = clibfabric.backoff
             /\ (clibfabric.state = "STOPPING_USOCK"
                   /\ clibfabric'.state # "STOPPING_USOCK") =>
                   /\ C_UsockStopped
                   /\ clibfabric'.state = "WAITING"
                   /\ clibfabric'.usock = "idle"
                   /\ clibfabric'.retry = "active"
             /\ (clibfabric.state = "WAITING"
                   /\ clibfabric'.state = "WAITING") =>
                   clibfabric'.usock = clibfabric.usock ]_vars

\* C24 witness: the connector is WAITING after a connect error, the socket
\* has stopped.
C24_Witness ==
    /\ clibfabric.fsm = "active"
    /\ clibfabric.state = "WAITING"
    /\ clibfabric.retry = "active"
    /\ clibfabric.usock = "idle"
    /\ clibfabric.stat.NN_STAT_CONNECT_ERRORS = 1
    /\ clibfabric.backoff.n = 0

\* C25: whenever an endpoint is about to open its socket, the socket is idle:
\* the listener before its start and while it waits for the timer to stop
\* before a retry (the next event runs nn_blibfabric_start_listening), the
\* connector while it waits for the resolver to stop after a resolution
\* without error (the next event runs nn_clibfabric_start_connecting).
C25_SocketOpenedOnlyWhenIdle ==
    /\ (/\ blibfabric.fsm \in {"idle", "active"}
        /\ blibfabric.stopped = 0
        /\ blibfabric.state \in {"IDLE", "STOPPING_BACKOFF"})
       => blibfabric.usock = "idle"
    /\ (/\ clibfabric.fsm = "active"
        /\ clibfabric.state = "STOPPING_DNS"
        /\ clibfabric.dns_result.error = 0)
       => clibfabric.usock = "idle"

\* C26: the in-progress-connections counter of the connector is 1 exactly
\* while a connect is in flight and 0 otherwise, and it is 0 once the
\* connector has reported stopped.
C26_InProgressCounter ==
    /\ clibfabric.stat.NN_STAT_INPROGRESS_CONNECTIONS =
          (IF clibfabric.usock = "connecting" THEN 1 ELSE 0)
    /\ clibfabric.stopped > 0 =>
          clibfabric.stat.NN_STAT_INPROGRESS_CONNECTIONS = 0

\* C27: every established connection of the connector is counted at most
\* once as ended: broken-connections plus dropped-connections never exceeds
\* established-connections, and a stop request that finds the slibfabric
\* already stopping after its error does not count a dropped connection.
C27_ConnectionEndedCountedOnce ==
    /\ [](clibfabric.stat.NN_STAT_BROKEN_CONNECTIONS
             + clibfabric.stat.NN_STAT_DROPPED_CONNECTIONS
          <= clibfabric.stat.NN_STAT_ESTABLISHED_CONNECTIONS)
    /\ [][ (C_Stop /\ clibfabric.slibfabric = "stopping") =>
              clibfabric'.stat.NN_STAT_DROPPED_CONNECTIONS =
                 clibfabric.stat.NN_STAT_DROPPED_CONNECTIONS ]_vars

BRetryStates == {"CLOSING", "WAITING", "STOPPING_BACKOFF"}

\* C29: once ACTIVE, the listener leaves ACTIVE only in the step that
\* delivers a stop request; the retry cycle (CLOSING, WAITING,
\* STOPPING_BACKOFF) is entered only from IDLE at the start or from within
\* the cycle, never from ACTIVE or from a stopping state, and in every state
\* of the retry cycle the list of accepted connections and the
\* pending-acceptor slot are empty.
C29_ActiveLeftOnlyByStop ==
    /\ [](blibfabric.state \in BRetryStates =>
             /\ blibfabric.alibfabrics = << >>
             /\ blibfabric.alibfabric = NULL)
    /\ [][/\ (blibfabric.state = "ACTIVE" /\ blibfabric'.state # "ACTIVE") =>
                 /\ blibfabric.fsm = "active"
                 /\ blibfabric'.fsm # "active"
                 /\ blibfabric'.state \notin BRetryStates
          /\ (blibfabric.state \notin BRetryStates
              /\ blibfabric'.state \in BRetryStates) =>
                 /\ blibfabric.state = "IDLE"
                 /\ blibfabric.fsm = "idle"
                 /\ blibfabric.stopped = 0]_vars

\* The listener became ACTIVE after a retry, holds accepted connections and
\* a pending acceptor, and one accepted connection has failed.
C29_Witness ==
    /\ blibfabric.state = "ACTIVE"
    /\ blibfabric.fsm = "active"
    /\ blibfabric.backoff.n > 0
    /\ blibfabric.alibfabric # NULL
    /\ Len(blibfabric.alibfabrics) >= 2
    /\ \E i \in 1..Len(blibfabric.alibfabrics) :
          blibfabric.objs[blibfabric.alibfabrics[i]].state = "stopping"
====
